---------------------------- MODULE Spec2Model ----------------------------
(***************************************************************************)
(* Model of src/Products/SAML2Plugins/ExtensionBuilder.py:                 *)
(*   DummyExtension   (wrapper of one xml.etree Element)                   *)
(*   ExtensionBuilder (__init__ reads the configuration, add_extensions    *)
(*                     builds the AuthenticationRequest tree and appends   *)
(*                     it to the extension_elements of an Extensions).     *)
(* Python objects with identity (Elements) live in a heap; dictionaries    *)
(* are functions whose DOMAIN is the set of keys present.                  *)
(***************************************************************************)
EXTENDS Integers, Sequences, FiniteSets, TLC

VARIABLES config, builder, heap, extension_elements, log

vars == <<config, builder, heap, extension_elements, log>>

(***************************************************************************)
(* Bounds of the exploration.                                              *)
(***************************************************************************)
MaxAttrs == 2
MaxCalls == 2

(***************************************************************************)
(* Python values: None, bool, str, and their truth value.                  *)
(***************************************************************************)
PyNone == [kind |-> "none", b |-> FALSE, s |-> ""]
PyBool(x) == [kind |-> "bool", b |-> x, s |-> ""]
PyStr(x) == [kind |-> "str", b |-> FALSE, s |-> x]

Truthy(v) ==
  CASE v.kind = "bool" -> v.b
    [] v.kind = "str" -> v.s # ""
    [] OTHER -> FALSE

\* dict.get(key, default)
DictGet(d, key, default) == IF key \in DOMAIN d THEN d[key] ELSE default

EmptyDict == [k \in {} |-> PyNone]

(***************************************************************************)
(* Names built by the f-strings of add_extensions: "{namespace}local".     *)
(***************************************************************************)
akdb_ns == "https://www.akdb.de/request/2018/09"
classic_ui_ns == "https://www.akdb.de/request/2018/09/classic-ui/v1"

QName(ns, local) == [ns |-> ns, local |-> local]

(***************************************************************************)
(* xml.etree.ElementTree: Element, SubElement on a heap of nodes.  A node  *)
(* is [tag, attrib, text, children]; attrib is the sequence of the         *)
(* <<key, value>> items of the attribute dict in insertion order; children *)
(* is the sequence of the ids of the child elements.  The id of a new      *)
(* element is the next free index of the heap.                             *)
(***************************************************************************)
Node(tag, attrib) ==
  [tag |-> tag, attrib |-> attrib, text |-> PyNone, children |-> <<>>]

Element(h, tag, attrib) == Append(h, Node(tag, attrib))

\* Variant: the new element becomes the first child of its parent.
SubElementFirst(h, parent, tag, attrib) ==
  Append([h EXCEPT ![parent].children = <<Len(h) + 1>> \o @],
         Node(tag, attrib))

SubElement(h, parent, tag, attrib) ==
  Append([h EXCEPT ![parent].children = Append(@, Len(h) + 1)],
         Node(tag, attrib))

SetText(h, id, v) == [h EXCEPT ![id].text = v]

\* class DummyExtension: __init__ stores the element
DummyExtension(element) == [element |-> element]


(***************************************************************************)
(* DummyExtension.to_string: xml.etree tostring(element, "unicode"), as    *)
(* the sequence of the markup tokens it writes.  Namespaces get the        *)
(* prefixes ns0, ns1, ... in the order in which a pre-order walk of the    *)
(* tree meets them; the root start tag declares them all.  An element      *)
(* without text and without children is written as an empty-element tag;   *)
(* text that is None or "" writes nothing.                                 *)
(***************************************************************************)
RECURSIVE TagsOf(_, _), TagsOfAll(_, _)
TagsOf(h, id) == <<h[id].tag>> \o TagsOfAll(h, h[id].children)

TagsOfAll(h, ids) ==
  IF ids = <<>> THEN <<>>
  ELSE TagsOf(h, Head(ids)) \o TagsOfAll(h, Tail(ids))

RECURSIVE Namespaces(_, _)
Namespaces(tags, seen) ==
  IF tags = <<>> THEN seen
  ELSE IF \E i \in DOMAIN seen : seen[i] = Head(tags).ns
       THEN Namespaces(Tail(tags), seen)
       ELSE Namespaces(Tail(tags), Append(seen, Head(tags).ns))

PrefixOf(nss, ns) == (CHOOSE i \in DOMAIN nss : nss[i] = ns) - 1

Token(kind, nss, tag, xmlns, attrib, text) ==
  [kind |-> kind, prefix |-> PrefixOf(nss, tag.ns), local |-> tag.local,
   xmlns |-> xmlns, attrib |-> attrib, text |-> text]

RECURSIVE Serialize(_, _, _, _), SerializeAll(_, _, _)
Serialize(h, id, nss, xmlns) ==
  LET e == h[id]
      hasText == Truthy(e.text)
  IN  IF hasText \/ e.children # <<>>
      THEN <<Token("start", nss, e.tag, xmlns, e.attrib, "")>>
           \o (IF hasText
               THEN <<Token("text", nss, e.tag, <<>>, <<>>, e.text.s)>>
               ELSE <<>>)
           \o SerializeAll(h, e.children, nss)
           \o <<Token("end", nss, e.tag, <<>>, <<>>, "")>>
      ELSE <<Token("empty", nss, e.tag, xmlns, e.attrib, "")>>

SerializeAll(h, ids, nss) ==
  IF ids = <<>> THEN <<>>
  ELSE Serialize(h, Head(ids), nss, <<>>) \o SerializeAll(h, Tail(ids), nss)

to_string(h, ext) ==
  LET nss == Namespaces(TagsOf(h, ext.element), <<>>)
  IN  Serialize(h, ext.element, nss, nss)

(***************************************************************************)
(* ExtensionBuilder.__init__: the four fields with their defaults.         *)
(***************************************************************************)
ExtensionBuilder(cfg) ==
  [profile |-> DictGet(cfg, "profile", PyStr("bundid")),
   version |-> DictGet(cfg, "version", PyStr("2")),
   requested_attributes |-> DictGet(cfg, "requested_attributes", <<>>),
   display_information |-> DictGet(cfg, "display_information", EmptyDict)]

(***************************************************************************)
(* ExtensionBuilder.add_extensions, the construction of the tree.          *)
(***************************************************************************)
\* Variant: "true" if attr.get("required") is True else "false"
RequiredAttributeIsTrue(attr) ==
  IF DictGet(attr, "required", PyBool(FALSE)) = PyBool(TRUE)
  THEN PyStr("true") ELSE PyStr("false")

\* "true" if attr.get("required", False) else "false"
RequiredAttribute(attr) ==
  IF Truthy(DictGet(attr, "required", PyBool(FALSE)))
  THEN PyStr("true") ELSE PyStr("false")

\* attribs = {"Name": attr["name"]}; attribs["RequiredAttribute"] = ...
Attribs(attr) ==
  <<<<"Name", attr["name"]>>, <<"RequiredAttribute", RequiredAttribute(attr)>>>>

\* Variant: an entry without a name is skipped (attr.get("name")).
RECURSIVE RequestedLoopSkip(_, _, _, _)
RequestedLoopSkip(h, parent, attrs, i) ==
  IF i > Len(attrs)
  THEN [exc |-> "none", heap |-> h, built |-> i - 1]
  ELSE IF "name" \notin DOMAIN attrs[i]
       THEN RequestedLoopSkip(h, parent, attrs, i + 1)
       ELSE RequestedLoopSkip(
              SubElement(h, parent, QName(akdb_ns, "RequestedAttribute"),
                         Attribs(attrs[i])),
              parent, attrs, i + 1)

\* for attr in self.requested_attributes: from entry i on.  attr["name"] of
\* an entry without that key raises KeyError and ends the loop and the call.
RECURSIVE RequestedLoop(_, _, _, _)
RequestedLoop(h, parent, attrs, i) ==
  IF i > Len(attrs)
  THEN [exc |-> "none", heap |-> h, built |-> i - 1]
  ELSE IF "name" \notin DOMAIN attrs[i]
       THEN [exc |-> "KeyError", heap |-> h, built |-> i - 1]
       ELSE RequestedLoop(
              SubElement(h, parent, QName(akdb_ns, "RequestedAttribute"),
                         Attribs(attrs[i])),
              parent, attrs, i + 1)

\* if self.requested_attributes: ...
RequestedPart(b, h, root) ==
  IF b.requested_attributes # <<>>
  THEN RequestedLoop(SubElement(h, root, QName(akdb_ns, "RequestedAttributes"), <<>>),
                     Len(h) + 1, b.requested_attributes, 1)
  ELSE [exc |-> "none", heap |-> h, built |-> 0]

\* Variant: if one of the two keys read is present.
DisplayConditionByKeys(b) ==
  DOMAIN b.display_information
    \cap {"organization_display_name", "online_service_id"} # {}

\* if self.display_information:
DisplayCondition(b) == DOMAIN b.display_information # {}

\* Variant: no leaf for a key that is absent.
LeafIfPresent(h, version_elem, local, di, key) ==
  IF key \in DOMAIN di
  THEN SetText(SubElement(h, version_elem, QName(classic_ui_ns, local), <<>>),
               Len(h) + 1, di[key])
  ELSE h

\* Variant: both leaves read organization_display_name.
LeafSameKey(h, version_elem, local, di, key) ==
  SetText(SubElement(h, version_elem, QName(classic_ui_ns, local), <<>>),
          Len(h) + 1, DictGet(di, "organization_display_name", PyStr("")))

\* SubElement(version_elem, "{classic_ui_ns}local").text =
\*   self.display_information.get(key, "")
Leaf(h, version_elem, local, di, key) ==
  SetText(SubElement(h, version_elem, QName(classic_ui_ns, local), <<>>),
          Len(h) + 1, DictGet(di, key, PyStr("")))

DisplayPart(b, h, root) ==
  IF DisplayCondition(b)
  THEN LET display_info_elem == Len(h) + 1
           version_elem == Len(h) + 2
           h1 == SubElement(h, root, QName(akdb_ns, "DisplayInformation"), <<>>)
           h2 == SubElement(h1, display_info_elem, QName(classic_ui_ns, "Version"), <<>>)
           h3 == Leaf(h2, version_elem, "OrganizationDisplayName",
                      b.display_information, "organization_display_name")
       IN  Leaf(h3, version_elem, "OnlineServiceId",
                b.display_information, "online_service_id")
  ELSE h

\* The tree of one call: [exc, heap, root, built].  built is the number of
\* RequestedAttribute elements created when the loop ended.
BuildTree(b, h) ==
  LET authn_elem == Len(h) + 1
      h1 == Element(h, QName(akdb_ns, "AuthenticationRequest"),
                    <<<<"Version", b.version>>>>)
      r == RequestedPart(b, h1, authn_elem)
  IN  IF r.exc # "none"
      THEN [exc |-> r.exc, heap |-> r.heap, root |-> authn_elem, built |-> r.built]
      ELSE [exc |-> "none", heap |-> DisplayPart(b, r.heap, authn_elem),
            root |-> authn_elem, built |-> r.built]

\* Variant: extension_elements.insert(0, dummy_extension)
PrependExtension(elements, ext) == <<ext>> \o elements

\* extensions_obj.extension_elements.append(dummy_extension)
AppendExtension(elements, ext) == Append(elements, ext)

(***************************************************************************)
(* Inputs: the configurations and the two Extensions objects of the        *)
(* caller.  "c1" already holds an extension of another origin.             *)
(***************************************************************************)
Names == {"givenName", "mail"}
RequiredValues == {PyBool(TRUE), PyBool(FALSE), PyStr("false")}

Optional(key, values) == {EmptyDict} \cup {key :> v : v \in values}

\* Entries with a name and any "required", and an entry without a name
\* (the "required" of an entry without a name is never read).
AttrEntries ==
  {("name" :> PyStr(x)) @@ r : x \in Names, r \in Optional("required", RequiredValues)}
    \cup {"required" :> PyBool(TRUE)}

AttrSeqs == UNION {[1..n -> AttrEntries] : n \in 0..MaxAttrs}

\* Any combination of the two keys read, and a mapping with another key only.
DisplayInformations ==
  {o @@ s :
     o \in Optional("organization_display_name", {PyStr("Org"), PyStr("SVC")}),
     s \in Optional("online_service_id", {PyStr("SVC")})}
    \cup {"logo" :> PyStr("x")}

\* The configurations: with or without each of the two keys that decide the
\* shape of the tree; "profile" and "version" are left to their defaults.
Configs ==
  {ra @@ di :
     ra \in Optional("requested_attributes", AttrSeqs),
     di \in Optional("display_information", DisplayInformations)}

Containers == {"c1", "c2"}

OtherElement == Node(QName("urn:other", "Other"), <<>>)

InitialHeap == <<OtherElement>>

InitialElements == [c \in Containers |-> IF c = "c1" THEN <<DummyExtension(1)>> ELSE <<>>]

(***************************************************************************)
(* The state machine.  log is the history of the calls of add_extensions:  *)
(* the Extensions object passed, the exception raised ("none" when the     *)
(* call returned) and the number of RequestedAttribute elements created.   *)
(***************************************************************************)
Init ==
  /\ config \in Configs
  /\ builder = ExtensionBuilder(config)
  /\ heap = InitialHeap
  /\ extension_elements = InitialElements
  /\ log = <<>>

\* Variant: display_information.pop("organization_display_name", "").
add_extensions_pop(c) ==
  LET r == BuildTree(builder, heap)
      di == builder.display_information
  IN  /\ Len(log) < MaxCalls
      /\ IF r.exc = "none"
         THEN /\ heap' = r.heap
              /\ extension_elements' =
                   [extension_elements EXCEPT
                      ![c] = AppendExtension(@, DummyExtension(r.root))]
              /\ builder' =
                   [builder EXCEPT !.display_information =
                      [k \in DOMAIN di \ {"organization_display_name"} |-> di[k]]]
         ELSE UNCHANGED <<heap, extension_elements, builder>>
      /\ log' = Append(log, [target |-> c, exc |-> r.exc, built |-> r.built])
      /\ UNCHANGED config

\* Variant: the loop consumes self.requested_attributes (pop(0)).
add_extensions_consume(c) ==
  LET r == BuildTree(builder, heap)
  IN  /\ Len(log) < MaxCalls
      /\ IF r.exc = "none"
         THEN /\ heap' = r.heap
              /\ extension_elements' =
                   [extension_elements EXCEPT
                      ![c] = AppendExtension(@, DummyExtension(r.root))]
              /\ builder' = [builder EXCEPT !.requested_attributes = <<>>]
         ELSE UNCHANGED <<heap, extension_elements, builder>>
      /\ log' = Append(log, [target |-> c, exc |-> r.exc, built |-> r.built])
      /\ UNCHANGED config

\* Variant: the root is appended to the container before its children are
\* created.
add_extensions_append_first(c) ==
  LET r == BuildTree(builder, heap)
  IN  /\ Len(log) < MaxCalls
      /\ heap' = r.heap
      /\ extension_elements' =
           [extension_elements EXCEPT
              ![c] = AppendExtension(@, DummyExtension(r.root))]
      /\ log' = Append(log, [target |-> c, exc |-> r.exc, built |-> r.built])
      /\ UNCHANGED <<config, builder>>

\* builder.add_extensions(c).  The elements of a call that raised are
\* unreachable once the exception has left the call.
add_extensions(c) ==
  LET r == BuildTree(builder, heap)
  IN  /\ Len(log) < MaxCalls
      /\ IF r.exc = "none"
         THEN /\ heap' = r.heap
              /\ extension_elements' =
                   [extension_elements EXCEPT
                      ![c] = AppendExtension(@, DummyExtension(r.root))]
         ELSE UNCHANGED <<heap, extension_elements>>
      /\ log' = Append(log, [target |-> c, exc |-> r.exc, built |-> r.built])
      /\ UNCHANGED <<config, builder>>

Next == \E c \in Containers : add_extensions(c)

Spec == Init /\ [][Next]_vars

(***************************************************************************)
(* Vocabulary of the properties.                                           *)
(***************************************************************************)
Last(q) == q[Len(q)]

\* The call that has just returned or raised, in a step of add_extensions.
Called == Len(log') = Len(log) + 1

\* The extensions a container has gained since the beginning.
Appended(c) ==
  SubSeq(extension_elements[c], Len(InitialElements[c]) + 1, Len(extension_elements[c]))

AllAppended == UNION {{Appended(c)[i] : i \in DOMAIN Appended(c)} : c \in Containers}

\* The number of calls on container c that returned.
RECURSIVE Returned(_, _)
Returned(q, c) ==
  IF q = <<>> THEN 0
  ELSE Returned(Tail(q), c)
       + (IF Head(q).target = c /\ Head(q).exc = "none" THEN 1 ELSE 0)

\* The children of element id that have the given tag, in document order.
ChildrenTagged(h, id, tag) ==
  SelectSeq(h[id].children, LAMBDA k : h[k].tag = tag)

\* The value of attribute key of element id.
Attr(h, id, key) ==
  LET i == CHOOSE j \in DOMAIN h[id].attrib : h[id].attrib[j][1] = key
  IN  h[id].attrib[i][2]

\* The elements of the tree rooted at id.
RECURSIVE Descendants(_, _)
Descendants(h, id) ==
  {id} \cup UNION {Descendants(h, h[id].children[i]) : i \in DOMAIN h[id].children}

\* The tree rooted at id without the identities of its elements.
RECURSIVE Content(_, _)
Content(h, id) ==
  [tag |-> h[id].tag, attrib |-> h[id].attrib, text |-> h[id].text,
   children |-> [i \in DOMAIN h[id].children |-> Content(h, h[id].children[i])]]

AllNamed(attrs) == \A i \in DOMAIN attrs : "name" \in DOMAIN attrs[i]

RequestedAttributesOf(cfg) ==
  IF "requested_attributes" \in DOMAIN cfg THEN cfg["requested_attributes"] ELSE <<>>

DisplayKeysOf(cfg) ==
  IF "display_information" \in DOMAIN cfg THEN DOMAIN cfg["display_information"] ELSE {}

RequestedAttributesTag == QName(akdb_ns, "RequestedAttributes")
RequestedAttributeTag == QName(akdb_ns, "RequestedAttribute")
DisplayInformationTag == QName(akdb_ns, "DisplayInformation")
VersionTag == QName(classic_ui_ns, "Version")

(***************************************************************************)
(* C1: a call of add_extensions that returns leaves the collection of the  *)
(* container it was given as it was, followed by one new DummyExtension    *)
(* that wraps a new AuthenticationRequest element; the other container,    *)
(* the elements that existed before and the builder are unchanged.         *)
(***************************************************************************)
C1_Step ==
  (Called /\ Last(log').exc = "none") =>
     LET c == Last(log').target
         before == extension_elements[c]
         after == extension_elements'[c]
     IN  /\ Len(after) = Len(before) + 1
         /\ SubSeq(after, 1, Len(before)) = before
         /\ Last(after).element \notin DOMAIN heap
         /\ Last(after) = DummyExtension(Last(after).element)
         /\ heap'[Last(after).element].tag = QName(akdb_ns, "AuthenticationRequest")
         /\ \A d \in Containers \ {c} : extension_elements'[d] = extension_elements[d]
         /\ \A i \in DOMAIN heap : heap'[i] = heap[i]
         /\ builder' = builder /\ config' = config

C1_AppendsExactlyOne == [][C1_Step]_vars

C1_Witness ==
  /\ log # <<>> /\ Last(log).exc = "none" /\ Last(log).target = "c1"
  /\ Len(extension_elements["c1"]) = Len(InitialElements["c1"]) + 1
  /\ extension_elements["c1"][1] = InitialElements["c1"][1]
  /\ heap[Last(extension_elements["c1"]).element].tag
       = QName(akdb_ns, "AuthenticationRequest")

(***************************************************************************)
(* C2: for a non-empty requested_attributes whose entries all have a name, *)
(* the RequestedAttributes element of every tree the builder appended has  *)
(* as many RequestedAttribute children as there are entries, and the Name  *)
(* of the i-th child is the name of the i-th entry.                        *)
(***************************************************************************)
C2_ChildrenMirrorInput ==
  LET attrs == RequestedAttributesOf(config)
  IN  (attrs # <<>> /\ AllNamed(attrs)) =>
        \A e \in AllAppended :
          LET ras == ChildrenTagged(heap, e.element, RequestedAttributesTag)
          IN  /\ Len(ras) = 1
              /\ LET kids == heap[ras[1]].children
                 IN  /\ Len(kids) = Len(attrs)
                     /\ \A i \in DOMAIN kids :
                          /\ heap[kids[i]].tag = RequestedAttributeTag
                          /\ Attr(heap, kids[i], "Name") = attrs[i]["name"]

C2_Witness ==
  LET attrs == RequestedAttributesOf(config)
  IN  /\ Len(attrs) = 2 /\ AllNamed(attrs)
      /\ attrs[1]["name"] = PyStr("mail") /\ attrs[2]["name"] = PyStr("givenName")
      /\ \E e \in AllAppended :
           \E ra \in DOMAIN heap :
              /\ heap[e.element].children[1] = ra
              /\ Len(heap[ra].children) = 2
              /\ Attr(heap, heap[ra].children[1], "Name") = PyStr("mail")

(***************************************************************************)
(* C3: the RequiredAttribute of the i-th RequestedAttribute child is       *)
(* "true" exactly when entry i has a "required" whose value is truthy, and *)
(* "false" otherwise (also when the entry has no "required").              *)
(***************************************************************************)
C3_RequiredRendering ==
  LET attrs == RequestedAttributesOf(config)
  IN  \A e \in AllAppended :
        \A ra \in Descendants(heap, e.element) :
          heap[ra].tag = RequestedAttributesTag =>
             \A i \in DOMAIN heap[ra].children :
                LET v == Attr(heap, heap[ra].children[i], "RequiredAttribute")
                    truthy == /\ "required" \in DOMAIN attrs[i]
                              /\ Truthy(attrs[i]["required"])
                IN  /\ v \in {PyStr("true"), PyStr("false")}
                    /\ (v = PyStr("true")) <=> truthy

C3_Witness ==
  LET attrs == RequestedAttributesOf(config)
  IN  /\ Len(attrs) = 2
      /\ DOMAIN attrs[1] = {"name"}
      /\ "required" \in DOMAIN attrs[2] /\ attrs[2]["required"] = PyStr("false")
      /\ \E e \in AllAppended :
           LET ra == heap[e.element].children[1]
           IN  /\ Attr(heap, heap[ra].children[1], "RequiredAttribute") = PyStr("false")
               /\ Attr(heap, heap[ra].children[2], "RequiredAttribute") = PyStr("true")

(***************************************************************************)
(* C4: the root of every appended tree has a RequestedAttributes child     *)
(* exactly when requested_attributes is non-empty and a DisplayInformation *)
(* child exactly when display_information is non-empty; when both are      *)
(* empty or absent from the configuration the root has no children.        *)
(***************************************************************************)
C4_OptionalSections ==
  \A e \in AllAppended :
     /\ Len(ChildrenTagged(heap, e.element, RequestedAttributesTag))
          = (IF RequestedAttributesOf(config) # <<>> THEN 1 ELSE 0)
     /\ Len(ChildrenTagged(heap, e.element, DisplayInformationTag))
          = (IF DisplayKeysOf(config) # {} THEN 1 ELSE 0)
     /\ (RequestedAttributesOf(config) = <<>> /\ DisplayKeysOf(config) = {})
          => heap[e.element].children = <<>>

C4_Witness ==
  /\ "requested_attributes" \notin DOMAIN config
  /\ "display_information" \notin DOMAIN config
  /\ \E e \in AllAppended : heap[e.element].children = <<>>

(***************************************************************************)
(* C5: when display_information is non-empty, DisplayInformation/Version   *)
(* has exactly the leaves OrganizationDisplayName and OnlineServiceId, in  *)
(* that order, and the text of a leaf whose key is absent is "".           *)
(***************************************************************************)
LeafText(key) ==
  IF key \in DisplayKeysOf(config) THEN config["display_information"][key] ELSE PyStr("")

C5_BothLeavesAlways ==
  DisplayKeysOf(config) # {} =>
    \A e \in AllAppended :
      \A d \in Descendants(heap, e.element) :
        heap[d].tag = DisplayInformationTag =>
           /\ Len(heap[d].children) = 1
           /\ LET v == heap[heap[d].children[1]]
              IN  /\ v.tag = VersionTag
                  /\ Len(v.children) = 2
                  /\ heap[v.children[1]].tag = QName(classic_ui_ns, "OrganizationDisplayName")
                  /\ heap[v.children[2]].tag = QName(classic_ui_ns, "OnlineServiceId")
                  /\ heap[v.children[1]].text = LeafText("organization_display_name")
                  /\ heap[v.children[2]].text = LeafText("online_service_id")
                  /\ heap[v.children[1]].children = <<>>
                  /\ heap[v.children[2]].children = <<>>

C5_Witness ==
  /\ DisplayKeysOf(config) = {"online_service_id"}
  /\ \E e \in AllAppended :
       \E d \in Descendants(heap, e.element) :
          /\ heap[d].tag = VersionTag
          /\ Len(heap[d].children) = 2
          /\ heap[heap[d].children[1]].text = PyStr("")
          /\ heap[heap[d].children[2]].text = PyStr("SVC")

(***************************************************************************)
(* C6: when display_information has both keys.  As claimed: each of the    *)
(* two values is the text of exactly one element of the tree, a leaf under *)
(* DisplayInformation/Version.  As amended: OrganizationDisplayName and    *)
(* OnlineServiceId under DisplayInformation/Version hold the two values,   *)
(* no other element of the tree has text, and the serialized element has   *)
(* the two values as its text, in that order; so a value is the text of    *)
(* one element when the two values differ and of two when they are equal.  *)
(***************************************************************************)
BothDisplayKeys ==
  {"organization_display_name", "online_service_id"} \subseteq DisplayKeysOf(config)

UnderVersion(h, root, n) ==
  \E i \in DOMAIN h[root].children :
    LET d == h[root].children[i]
    IN  /\ h[d].tag = DisplayInformationTag
        /\ \E j \in DOMAIN h[d].children :
              LET v == h[d].children[j]
              IN  /\ h[v].tag = VersionTag
                  /\ \E k \in DOMAIN h[v].children : h[v].children[k] = n
                  /\ h[n].children = <<>>

Holders(h, root, value) == {n \in Descendants(h, root) : h[n].text = value}

C6_EachValueOnce ==
  BothDisplayKeys =>
    \A e \in AllAppended :
      \A key \in {"organization_display_name", "online_service_id"} :
         /\ Cardinality(Holders(heap, e.element, LeafText(key))) = 1
         /\ \A n \in Holders(heap, e.element, LeafText(key)) :
               UnderVersion(heap, e.element, n)

TextTokens(tokens) == SelectSeq(tokens, LAMBDA t : t.kind = "text")

C6_ValuesUnderVersion ==
  BothDisplayKeys =>
    \A e \in AllAppended :
      LET odn == LeafText("organization_display_name")
          osi == LeafText("online_service_id")
          texts == TextTokens(to_string(heap, e))
      IN  /\ \A n \in Descendants(heap, e.element) :
               heap[n].text # PyNone =>
                 /\ UnderVersion(heap, e.element, n)
                 /\ \/ heap[n].tag.local = "OrganizationDisplayName" /\ heap[n].text = odn
                    \/ heap[n].tag.local = "OnlineServiceId" /\ heap[n].text = osi
          /\ \A key \in {"organization_display_name", "online_service_id"} :
               Cardinality(Holders(heap, e.element, LeafText(key)))
                 = (IF odn = osi THEN 2 ELSE 1)
          /\ Len(texts) = 2
          /\ texts[1].text = odn.s /\ texts[1].local = "OrganizationDisplayName"
          /\ texts[2].text = osi.s /\ texts[2].local = "OnlineServiceId"

C6_Witness ==
  /\ BothDisplayKeys
  /\ LeafText("organization_display_name") = LeafText("online_service_id")
  /\ \E e \in AllAppended :
       Cardinality(Holders(heap, e.element, LeafText("online_service_id"))) = 2

(***************************************************************************)
(* C7: the extensions the builder appended to the two containers have the  *)
(* same serialization, whatever the containers held before.                *)
(***************************************************************************)
C7_SameSerialization ==
  \A i \in DOMAIN Appended("c1") :
    \A j \in DOMAIN Appended("c2") :
       to_string(heap, Appended("c1")[i]) = to_string(heap, Appended("c2")[j])

C7_Witness ==
  /\ Appended("c1") # <<>> /\ Appended("c2") # <<>>
  /\ Appended("c1")[1].element # Appended("c2")[1].element
  /\ Len(to_string(heap, Appended("c2")[1])) > 6
  /\ to_string(heap, Appended("c2")[1])[1].xmlns = <<akdb_ns, classic_ui_ns>>

(***************************************************************************)
(* C8: when an entry of requested_attributes has no "name", every call of  *)
(* add_extensions ends with KeyError, wherever the entry is and whether    *)
(* display_information is set or not.                                      *)
(***************************************************************************)
C8_MissingNameRaises ==
  ~AllNamed(RequestedAttributesOf(config)) =>
     \A i \in DOMAIN log : log[i].exc = "KeyError"

C8_Witness ==
  LET attrs == RequestedAttributesOf(config)
  IN  /\ Len(attrs) = 2
      /\ "name" \in DOMAIN attrs[1] /\ "name" \notin DOMAIN attrs[2]
      /\ BothDisplayKeys
      /\ log # <<>> /\ Last(log).exc = "KeyError"

(***************************************************************************)
(* C9: after k calls that returned on one container the container has      *)
(* gained k extensions, in the order of the calls; the builder still holds *)
(* what __init__ read; the roots of the appended extensions are distinct,  *)
(* no element belongs to two of the trees (or to an element that existed   *)
(* before), and the trees have the same content.                           *)
(***************************************************************************)
AppendedAt == UNION {{<<c, i>> : i \in DOMAIN Appended(c)} : c \in Containers}

RootAt(p) == Appended(p[1])[p[2]].element

C9_RepeatedCalls ==
  /\ builder = ExtensionBuilder(config)
  /\ \A c \in Containers :
       /\ Len(Appended(c)) = Returned(log, c)
       /\ SubSeq(extension_elements[c], 1, Len(InitialElements[c])) = InitialElements[c]
       /\ \A i, j \in DOMAIN Appended(c) :
             i < j => Appended(c)[i].element < Appended(c)[j].element
  /\ \A p, q \in AppendedAt :
       (p # q /\ RootAt(p) <= RootAt(q)) =>
         /\ RootAt(p) # RootAt(q)
         /\ Descendants(heap, RootAt(p)) \cap Descendants(heap, RootAt(q)) = {}
         /\ Content(heap, RootAt(p)) = Content(heap, RootAt(q))
  /\ \A p \in AppendedAt :
       Descendants(heap, RootAt(p)) \cap DOMAIN InitialHeap = {}

C9_Witness ==
  /\ Len(log) = 2 /\ log[1].target = "c2" /\ log[2].target = "c2"
  /\ Len(Appended("c2")) = 2
  /\ Appended("c2")[1].element # Appended("c2")[2].element
  /\ Len(heap[Appended("c2")[2].element].children) = 2

(***************************************************************************)
(* C10: a call of add_extensions that raises leaves the collections of the *)
(* containers as they were, also when it raises after it created elements. *)
(***************************************************************************)
C10_Step ==
  (Called /\ Last(log').exc # "none") =>
     \A c \in Containers : extension_elements'[c] = extension_elements[c]

C10_FailureLeavesContainer == [][C10_Step]_vars

C10_Witness ==
  LET attrs == RequestedAttributesOf(config)
  IN  /\ Len(attrs) = 2
      /\ "name" \in DOMAIN attrs[1] /\ "name" \notin DOMAIN attrs[2]
      /\ Len(log) = 2 /\ log[2].exc = "KeyError" /\ log[2].built = 1
      /\ extension_elements = InitialElements

=============================================================================
